---- MODULE Spec2Model ----
(***************************************************************************)
(* Retrieval-and-response pipeline of the Agentic RAG API server:          *)
(* AgenticRAGSystem (api_server.py) over VectorStoreManager                *)
(* (src/vector_store.py) and AgenticRAG (src/agentic_rag.py).              *)
(*                                                                         *)
(* Scores and thresholds are fixed-point numbers in tenths (0.2 is 2).     *)
(* A document id "doc_%08d" is represented by the counter value it is      *)
(* formatted from (the formatting is injective and order preserving for    *)
(* every counter below 10^8).                                              *)
(* Strings the code truncates are sequences of one-character strings.      *)
(***************************************************************************)
EXTENDS Integers, Sequences, FiniteSets, TLC

----------------------------------------------------------------------------
(* Bounds of the model *)

MaxIssued == 3          \* largest document counter explored
MaxStored == 2          \* chunks held by one vector store manager
MaxTurns == 12          \* exchanges one agent session saves to its memory
MaxMessages == 2        \* messages of a transcript given to source extraction
MaxLines == 2           \* lines of one such message
MaxRequests == 2        \* POST /settings/instructions requests received
MaxAnswered == 2        \* queries one session answers through POST /query

----------------------------------------------------------------------------
(* Program constants *)

Ceiling == 300          \* len(original_answer) > 300, original_answer[:300]
LookBack == 250         \* last_space > 250
HardCut == 297          \* truncated[:297]
SearchCap == 20         \* min(max_chunks * 2, 20)
DefaultMaxChunks == 3   \* _load_settings default max_chunks
DefaultThreshold == 2   \* _load_settings default similarity_threshold 0.2
DefaultTemperature == 1 \* AgenticRAGSystem.__init__: self.temperature = 0.1
memory_window == 10     \* AgenticRAG.__init__: memory_window: int = 10
max_iterations == 5     \* AgentExecutor(..., max_iterations=5)
ScanLast == 10          \* chat_memory.messages[-10:]

None == "None"          \* Python None / JSON null
Missing == "<absent>"   \* the key is not in the dict
DefaultModel == "gpt-4o-mini"   \* AgenticRAGSystem.__init__: self.model_name
\* self.agent = None (the fields of an agent are unused)
NoAgent == [ live |-> FALSE, model |-> None, temperature |-> 0,
             memory_empty |-> TRUE ]
NoStore == "NoStore"    \* vector_store_manager.vector_store = None

Max(S) == CHOOSE x \in S : \A y \in S : y <= x
Min2(a, b) == IF a < b THEN a ELSE b

----------------------------------------------------------------------------
(* Input domains *)

MetaKeys == {"year", "category"}
\* a dict over MetaKeys maps a key to its value, to None, or to Missing
EmptyDict == [k \in MetaKeys |-> Missing]
DictKeys(d) == {k \in MetaKeys : d[k] # Missing}
\* dict.get(k): None when the key is absent
Get(d, k) == IF d[k] = Missing THEN None ELSE d[k]

\* tags and custom metadata a caller attaches to an upload
Uploads ==
    { [ tags |-> {}, metadata |-> [EmptyDict EXCEPT !["year"] = "2023"] ],
      [ tags |-> {"lang"},
        metadata |-> [EmptyDict EXCEPT !["year"] = "2024",
                                       !["category"] = "2023"] ] }
\* tags of a query
QueryTags == { {}, {"db"}, {"lang", "db"} }
\* metadata_filter values of a query
QueryFilters ==
    { EmptyDict,
      [EmptyDict EXCEPT !["year"] = "2024"],
      [EmptyDict EXCEPT !["year"] = "2024", !["category"] = "2023"],
      [EmptyDict EXCEPT !["category"] = None] }

Lengths == {"short", "medium"}
MaxChunksChoices == {1, 2}
Thresholds == {0, DefaultThreshold, 10}     \* 0.0, 0.2, 1.0
\* raw scores an index may attach to a chunk for one question (0.1, 0.2, 1.2)
Scores == {1, 2, 12}
SettingsDomain ==
    [ system_instruction : {"instruction"},
      response_length : Lengths,
      show_similarity_scores : BOOLEAN,
      max_chunks : MaxChunksChoices \cup {DefaultMaxChunks},
      similarity_threshold : Thresholds ]
\* what update_settings is called with
SettingsInputs ==
    { s \in SettingsDomain :
        << s.response_length, s.show_similarity_scores, s.max_chunks,
           s.similarity_threshold >> \in
          { << "short", FALSE, 1, 0 >>,
            << "short", TRUE, 2, DefaultThreshold >>,
            << "medium", TRUE, 1, 10 >>,
            << "medium", FALSE, 2, DefaultThreshold >> } }

\* a text of n characters whose spaces are at the 0-based indexes in sp
MkAnswer(n, sp) == [i \in 1..n |-> IF (i - 1) \in sp THEN " " ELSE "a"]
\* texts the generation step may return
RawAnswers ==
    { MkAnswer(5, {2}),
      MkAnswer(Ceiling, {}),
      MkAnswer(Ceiling + 1, {}),
      MkAnswer(Ceiling + 100, {LookBack}),
      MkAnswer(Ceiling + 100, {100, LookBack + 1}),
      MkAnswer(Ceiling + 100, {HardCut, Ceiling}),
      MkAnswer(Ceiling + 100, {HardCut + 1}),
      MkAnswer(Ceiling + 100, {Ceiling - 1, Ceiling + 5}) }
Ellipsis == <<".", ".", ".">>
ErrorAnswer == MkAnswer(24, {5, 16})   \* "Error processing query: ..."

----------------------------------------------------------------------------
VARIABLES
    uploaded_documents,  \* self.uploaded_documents: document id -> DocumentInfo
    document_counter,    \* self.document_counter
    vsm,                 \* self.vector_store_manager
    agent,               \* self.agent
    current_settings,    \* self.current_settings
    settings_file,       \* content of instruction_settings.json
    model_name,          \* self.model_name
    temperature,         \* self.temperature, in tenths
    issued,              \* history: ids returned by _generate_document_id
    ret,                 \* the call being served and its outcome
    chat_memory,         \* AgenticRAG.memory.chat_memory.messages
    executor,            \* AgenticRAG.agent_executor serving one query
    sources,             \* what _extract_sources_from_memory returned
    requests,            \* POST /settings requests the event loop serves
    running,             \* the request whose handler the event loop runs
    file_parts           \* history: who wrote each part of the settings file

\* the state of AgenticRAGSystem other than its settings
registry_vars == << uploaded_documents, document_counter, vsm, agent,
                   model_name, temperature, issued, ret >>
settings_vars == << current_settings, settings_file >>
\* the state of one AgenticRAG session
session_vars == << chat_memory, executor, sources >>
\* the state of the event loop
handler_vars == << requests, running, file_parts >>
side_vars == << session_vars, handler_vars >>

vars == << registry_vars, settings_vars, session_vars, handler_vars >>

\* _load_settings when no settings file can be read
DefaultSettings ==
    [ system_instruction |-> "instruction",
      response_length |-> "short",
      show_similarity_scores |-> FALSE,
      max_chunks |-> DefaultMaxChunks,
      similarity_threshold |-> DefaultThreshold ]

\* VectorStoreManager.__init__: embeddings is None when OpenAIEmbeddings fails
NewManager(emb) ==
    [ embeddings |-> emb,
      vector_store |-> [kind |-> NoStore, docs |-> << >>],
      documents |-> << >> ]

\* no call is being served
Idle == [op |-> "idle"]

\* AgenticRAGSystem.__init__ in a directory without settings file and store
SystemInit ==
    /\ uploaded_documents = << >>
    /\ document_counter = 0
    /\ \E emb \in BOOLEAN : vsm = NewManager(emb)
    /\ agent = NoAgent
    /\ current_settings = DefaultSettings
    /\ settings_file = [state |-> Missing, content |-> DefaultSettings]
    /\ model_name = DefaultModel
    /\ temperature = DefaultTemperature
    /\ issued = {}
    /\ ret = Idle

\* no tool has been run
NoObservation == [ kind |-> "none", tool |-> "" ]
\* no query has returned
NoResult == [ success |-> FALSE, answer |-> "", error |-> "" ]

\* AgenticRAG.__init__: an executor that has served nothing
IdleExecutor ==
    [ pc |-> "idle", iterations |-> 0, steps |-> 0, turns |-> 0,
      tool |-> "", observation |-> NoObservation, history |-> << >>,
      cause |-> "", result |-> NoResult ]

\* AgenticRAG.__init__: a new ConversationBufferWindowMemory
SessionInit ==
    /\ chat_memory = << >>
    /\ executor = IdleExecutor
    /\ sources = << >>

\* the server has received no request
HandlerInit ==
    /\ requests = << >>
    /\ running = 0
    /\ file_parts = [ head |-> 0, tail |-> 0 ]

Init == SystemInit /\ SessionInit /\ HandlerInit

get_document_count == Cardinality(DOMAIN uploaded_documents)

----------------------------------------------------------------------------
(* Settings store *)

\* _save_settings: open(..., 'w') truncates the file before json.dump writes,
\* so a failed write leaves the old content (open failed) or a damaged file
SaveOutcomes(settings) ==
    { [ok |-> TRUE, file |-> [state |-> "written", content |-> settings]],
      [ok |-> FALSE, file |-> settings_file],
      [ok |-> FALSE,
       file |-> [state |-> "damaged", content |-> DefaultSettings]] }

\* an argument left at its default None
NoTemperature == -1

\* Python's "a or b" on the two arguments of initialize_agent: None is falsy,
\* and so is the number 0.0
OrModel(a, b) == IF a = None THEN b ELSE a
OrTemperature(a, b) == IF a = NoTemperature \/ a = 0 THEN b ELSE a

\* AgenticRAG(vector_store_manager, model_name, temperature): a new session
\* with a new ConversationBufferWindowMemory; __init__ catches what the
\* construction of its parts raises, so it always returns an object
AgenticRAG(model, temp) ==
    [ live |-> TRUE, model |-> model, temperature |-> temp,
      memory_empty |-> TRUE ]

\* initialize_agent(model_name, temperature): what it returns and the agent,
\* self.model_name and self.temperature it leaves
initialize_agent(model_arg, temperature_arg) ==
    IF get_document_count = 0
    THEN [ ok |-> FALSE, agent |-> agent, model_name |-> model_name,
           temperature |-> temperature ]
    ELSE LET m == OrModel(model_arg, model_name)
             t == OrTemperature(temperature_arg, temperature)
         IN  [ ok |-> TRUE, agent |-> AgenticRAG(m, t), model_name |-> m,
               temperature |-> t ]

\* a plausible slip: the in-memory settings are swapped before the write
ActiveAfterUpdate_swapfirst(saved, settings, current) == settings

\* update_settings: self.current_settings after the call, given whether
\* _save_settings succeeded
ActiveAfterUpdate(saved, settings, current) ==
    IF saved THEN settings ELSE current

\* a plausible slip: the live agent is kept when the settings change
AgentAfterUpdate_kept(saved, current, reinitialized) == current

\* update_settings: self.agent after the call; "if self.agent:
\* self.initialize_agent(...)" runs only after a successful save
AgentAfterUpdate(saved, current, reinitialized) ==
    IF saved /\ current.live THEN reinitialized ELSE current

update_settings ==
    /\ ret = Idle
    /\ \E settings \in SettingsInputs :
      \E w \in SaveOutcomes(settings) :
        LET r == initialize_agent(model_name, temperature)
        IN  /\ settings_file' = w.file
            /\ current_settings' =
                   ActiveAfterUpdate(w.ok, settings, current_settings)
            /\ agent' = AgentAfterUpdate(w.ok, agent, r.agent)
            /\ ret' = [ op |-> "update_settings", arg |-> settings,
                        saved |-> w.ok, before |-> current_settings,
                        agent_before |-> agent, returned |-> w.ok ]
            /\ model_name' =
                   IF w.ok /\ agent.live THEN r.model_name ELSE model_name
            /\ temperature' =
                   IF w.ok /\ agent.live THEN r.temperature ELSE temperature
            /\ UNCHANGED << uploaded_documents, document_counter, vsm,
                            issued,
                    side_vars >>

get_settings == current_settings

----------------------------------------------------------------------------
(* Document registry and ingestion *)

\* _generate_document_id: the incremented counter, formatted as doc_%08d
GenerateDocumentId(counter) == counter + 1

\* VectorStoreManager.add_documents for a non-empty chunk list: without
\* embeddings nothing is stored; otherwise the store is rebuilt from all
\* chunks as Chroma, else FAISS, else the in-memory fallback
ManagerAdd(m, chunks, kind) ==
    IF ~m.embeddings THEN [ok |-> FALSE, vsm |-> m]
    ELSE [ ok |-> TRUE,
           vsm |-> [ m EXCEPT !.documents = m.documents \o chunks,
                              !.vector_store =
                                  [ kind |-> kind,
                                    docs |-> m.documents \o chunks ] ] ]

StoreKinds == {"chroma", "faiss", "memory"}

add_documents ==
    /\ ret = Idle
    /\ document_counter < MaxIssued
    /\ Len(vsm.documents) < MaxStored
    /\ \E up \in Uploads, kind \in StoreKinds :
        LET tags == up.tags
            metadata == up.metadata
            doc_id == GenerateDocumentId(document_counter)
            \* common_metadata: document_id, tags when given, custom keys
            chunk == [ document_id |-> doc_id, tags |-> tags,
                       metadata |-> metadata ]
            added == ManagerAdd(vsm, << chunk >>, kind)
            \* "if not self.agent and self.get_document_count() > 0:
            \* self.initialize_agent()"; the registry holds doc_id by then
            fresh == AgenticRAG(OrModel(None, model_name),
                                OrTemperature(NoTemperature, temperature))
        IN  /\ document_counter' = doc_id
            /\ issued' = issued \cup {doc_id}
            /\ uploaded_documents' =
                   [ d \in DOMAIN uploaded_documents \cup {doc_id} |->
                       IF d = doc_id
                       THEN [ tags |-> tags, metadata |-> metadata,
                              chunk_count |-> 1 ]
                       ELSE uploaded_documents[d] ]
            /\ vsm' = added.vsm
            /\ agent' = IF ~ agent.live THEN fresh ELSE agent
            /\ ret' = [ op |-> "add_documents", id |-> doc_id,
                        returned |-> added.ok ]
            /\ UNCHANGED << current_settings, settings_file, model_name,
                            temperature,
                    side_vars >>

\* a plausible slip: the whole registry goes with the document
DeleteFromRegistry_all(registry, doc_id) ==
    IF doc_id \notin DOMAIN registry
    THEN [ ok |-> FALSE, registry |-> registry ]
    ELSE [ ok |-> TRUE, registry |-> << >> ]

\* AgenticRAGSystem.delete_document: what it returns and the registry it
\* leaves; the vector store is not touched
DeleteFromRegistry(registry, doc_id) ==
    IF doc_id \notin DOMAIN registry
    THEN [ ok |-> FALSE, registry |-> registry ]
    ELSE [ ok |-> TRUE,
           registry |-> [ d \in DOMAIN registry \ {doc_id} |-> registry[d] ] ]

\* a plausible slip: the handler forgets the agent when the last document goes
AgentAfterDelete_kept(deleted, remaining, current) == current

\* DELETE /documents/{doc_id}: "if rag_system.get_document_count() == 0:
\* rag_system.agent = None" after a successful delete
AgentAfterDelete(deleted, remaining, current) ==
    IF deleted /\ remaining = 0 THEN NoAgent ELSE current

\* DELETE /documents/{doc_id}; for an unknown id the handler answers 404
\* and delete_document, had it been called, returns False
delete_document ==
    /\ ret = Idle
    /\ \E doc_id \in 1..MaxIssued :
        LET r == DeleteFromRegistry(uploaded_documents, doc_id)
        IN  /\ uploaded_documents' = r.registry
            /\ agent' = AgentAfterDelete(r.ok,
                             Cardinality(DOMAIN r.registry), agent)
            /\ ret' = [ op |-> "delete_document", id |-> doc_id,
                        returned |-> r.ok, agent_before |-> agent ]
            /\ UNCHANGED << document_counter, vsm, current_settings,
                            settings_file, model_name, temperature, issued,
                    side_vars >>

\* a plausible slip: the session survives the clearing
AgentAfterClear_kept(current) == current

\* clear_all_documents: self.agent = None
AgentAfterClear(current) == NoAgent

clear_all_documents ==
    /\ ret = Idle
    /\ \E emb \in BOOLEAN : vsm' = NewManager(emb)
    /\ uploaded_documents' = << >>
    /\ document_counter' = 0
    /\ agent' = AgentAfterClear(agent)
    /\ ret' = [ op |-> "clear_all_documents", returned |-> TRUE,
                agent_before |-> agent ]
    /\ UNCHANGED << current_settings, settings_file, model_name,
                    temperature, issued,
                    side_vars >>

InitializeAgent ==
    /\ ret = Idle
    /\ LET r == initialize_agent(None, NoTemperature)
       IN  /\ agent' = r.agent
           /\ model_name' = r.model_name
           /\ temperature' = r.temperature
           /\ ret' = [ op |-> "initialize_agent", returned |-> r.ok,
                       agent_before |-> agent ]
           /\ UNCHANGED << uploaded_documents, document_counter, vsm,
                           current_settings, settings_file, issued,
                    side_vars >>

\* model and temperature a query request may name
ModelChoices == { << DefaultModel, DefaultTemperature >>, << "gpt-4", 0 >> }

\* set_model, called by POST /query before query_with_similarity
set_model ==
    /\ ret = Idle
    /\ \E c \in ModelChoices :
        /\ model_name' = c[1]
        /\ temperature' = c[2]
        /\ agent' = IF agent.live
                    THEN [ agent EXCEPT !.model = c[1], !.temperature = c[2] ]
                    ELSE agent
        /\ ret' = [ op |-> "set_model", returned |-> TRUE ]
    /\ UNCHANGED << uploaded_documents, document_counter, vsm,
                    current_settings, settings_file, issued,
                    side_vars >>

\* _load_settings: the content of the settings file when it can be read,
\* the defaults otherwise
LoadSettings(file) ==
    IF file.state = "written" THEN file.content ELSE DefaultSettings

\* load_existing_store on a new manager: the persisted Chroma collection is
\* opened when embeddings exist and the directory is not empty (it holds
\* what the Chroma store of the running system holds)
LoadExistingStore(m, old) ==
    IF m.embeddings /\ old.vector_store.kind = "chroma"
    THEN [ m EXCEPT !.vector_store = old.vector_store ]
    ELSE m

\* POST /reset: rag_system = AgenticRAGSystem()
reset_system ==
    /\ ret = Idle
    /\ \E emb \in BOOLEAN :
          vsm' = LoadExistingStore(NewManager(emb), vsm)
    /\ uploaded_documents' = << >>
    /\ document_counter' = 0
    /\ agent' = NoAgent
    /\ model_name' = DefaultModel
    /\ temperature' = DefaultTemperature
    /\ current_settings' = LoadSettings(settings_file)
    /\ ret' = [ op |-> "reset_system", returned |-> TRUE ]
    /\ UNCHANGED << settings_file, issued,
                    side_vars >>

----------------------------------------------------------------------------
(* Similarity search *)

\* vector_store.similarity_search_with_score(question, k) of a Chroma or FAISS
\* store: the k nearest chunks, nearest first, each with its distance to the
\* question (dist[i] is the distance of stored chunk i); ties keep store order
IndexSearch(docs, dist, k) ==
    LET n == Len(docs)
        Before(i, j) == dist[i] < dist[j] \/ (dist[i] = dist[j] /\ i < j)
        Pos(i) == 1 + Cardinality({ j \in 1..n : Before(j, i) })
        Order == [ p \in 1..n |-> CHOOSE i \in 1..n : Pos(i) = p ]
    IN  [ p \in 1..Min2(k, n) |->
            [ doc |-> docs[Order[p]], score |-> dist[Order[p]] ] ]

\* a plausible slip: all() instead of any(), every requested tag is required
TagCheck_all(doc_tags, tags) ==
    ~ (doc_tags = {} \/ ~ (\A tag \in tags : tag \in doc_tags))

\* tag check of the filter loop: TRUE when the candidate is kept
TagCheck(doc_tags, tags) ==
    ~ (doc_tags = {} \/ ~ (\E tag \in tags : tag \in doc_tags))

\* metadata check of the filter loop: TRUE when the candidate is kept
MetadataCheck(doc_metadata, metadata_filter) ==
    \A k \in DictKeys(metadata_filter) :
        Get(doc_metadata, k) = metadata_filter[k]

\* a plausible slip: the comparison is turned around
BelowThreshold_reversed(score, threshold) == score > threshold

\* score < similarity_threshold: continue
BelowThreshold(score, threshold) == score < threshold

\* the filter loop over docs_with_scores, from position i with acc collected
RECURSIVE FilterLoop(_, _, _, _, _, _)
FilterLoop(cands, i, acc, tags, metadata_filter, settings) ==
    IF i > Len(cands) THEN acc
    ELSE
      LET c == cands[i]
          skip ==
            \/ BelowThreshold(c.score, settings.similarity_threshold)
            \/ (tags # {} /\ ~ TagCheck(c.doc.tags, tags))
            \/ (metadata_filter # EmptyDict
                  /\ ~ MetadataCheck(c.doc.metadata, metadata_filter))
      IN  IF skip
          THEN FilterLoop(cands, i + 1, acc, tags, metadata_filter, settings)
          ELSE IF Len(acc) + 1 >= settings.max_chunks
               THEN Append(acc, c)
               ELSE FilterLoop(cands, i + 1, Append(acc, c), tags,
                               metadata_filter, settings)

\* the list comprehension of the no-filter path, cut to max_chunks
ThresholdOnly(cands, settings) ==
    LET kept == SelectSeq(cands,
                  LAMBDA c : c.score >= settings.similarity_threshold)
    IN  SubSeq(kept, 1, Min2(settings.max_chunks, Len(kept)))

\* a plausible slip: the widened pool is not capped
search_k_uncapped(tags, metadata_filter, settings) ==
    IF tags # {} \/ metadata_filter # EmptyDict
    THEN settings.max_chunks * 2
    ELSE settings.max_chunks

\* search_k: the pool asked of the index
search_k(tags, metadata_filter, settings) ==
    IF tags # {} \/ metadata_filter # EmptyDict
    THEN Min2(settings.max_chunks * 2, SearchCap)
    ELSE settings.max_chunks

FilterCandidates(cands, tags, metadata_filter, settings) ==
    IF tags # {} \/ metadata_filter # EmptyDict
    THEN FilterLoop(cands, 1, << >>, tags, metadata_filter, settings)
    ELSE ThresholdOnly(cands, settings)

----------------------------------------------------------------------------
(* Response post-processing *)

\* str.rfind(' '): 0-based index of the last space, -1 when there is none
rfind(text) ==
    LET P == { i \in 1..Len(text) : text[i] = " " }
    IN  IF P = {} THEN -1 ELSE Max(P) - 1

\* text[:n]
Prefix(text, n) == SubSeq(text, 1, Min2(n, Len(text)))

\* length control of query_with_similarity
postprocess(original_answer, response_length) ==
    IF response_length = "short" /\ Len(original_answer) > Ceiling
    THEN LET truncated == Prefix(original_answer, Ceiling)
             last_space == rfind(truncated)
         IN  IF last_space > LookBack
             THEN Prefix(truncated, last_space) \o Ellipsis
             ELSE Prefix(truncated, HardCut) \o Ellipsis
    ELSE original_answer

----------------------------------------------------------------------------
(* query_with_similarity *)

\* the fixed answers of the early returns (abbreviated)
MsgStoreNotReady == << "s", "t", "o", "r", "e" >>
MsgNoRelevant == << "n", "o", "n", "e" >>
MsgNoDocuments == << "e", "m", "p", "t", "y" >>
MsgSearchError == << "e", "r", "r", "o", "r" >>

ErrNotInitialized == "Vector store not initialized"
ErrNoRelevant == "No relevant documents found above similarity threshold"
ErrNoDocuments == "No documents available in system"
ErrSearch == "Search system error"
ErrAgent == "Error in query processing"

settings_used(settings) ==
    [ response_length |-> settings.response_length,
      max_chunks |-> settings.max_chunks,
      similarity_threshold |-> settings.similarity_threshold,
      show_similarity_scores |-> settings.show_similarity_scores ]

\* similarity_scores is None (null) or a list with one entry per chunk
NullScores == [ null |-> TRUE, items |-> << >> ]

CannotAnswer(answer, error, settings) ==
    [ success |-> FALSE, answer |-> answer, similarity_scores |-> NullScores,
      chunks_retrieved |-> 0, settings_used |-> settings_used(settings),
      error |-> error ]

\* AgenticRAG.query: it catches every exception and always returns a dict
AgentReplies ==
    { [ success |-> TRUE, answer |-> a, error |-> None ] : a \in RawAnswers }
      \cup { [ success |-> FALSE, answer |-> ErrorAnswer, error |-> ErrAgent ] }

\* a plausible slip: the scores are attached whatever the setting says
similarity_info_always(filtered_docs, settings) ==
    [ null |-> FALSE,
      items |-> [ i \in 1..Len(filtered_docs) |->
                    [ source |-> filtered_docs[i].doc.document_id,
                      score |-> filtered_docs[i].score ] ] ]

\* result["similarity_scores"]
similarity_info(filtered_docs, settings) ==
    IF settings.show_similarity_scores
    THEN [ null |-> FALSE,
           items |-> [ i \in 1..Len(filtered_docs) |->
                         [ source |-> filtered_docs[i].doc.document_id,
                           score |-> filtered_docs[i].score ] ] ]
    ELSE NullScores

\* the part of query_with_similarity after a successful search
Answered(filtered_docs, reply, settings) ==
    [ success |-> reply.success,
      answer |-> postprocess(reply.answer, settings.response_length),
      similarity_scores |-> similarity_info(filtered_docs, settings),
      chunks_retrieved |-> Len(filtered_docs),
      settings_used |-> settings_used(settings),
      error |-> reply.error ]

\* a plausible slip: the guard before the agent call never fires
NoRelevantDocuments_never(filtered_docs) == Len(filtered_docs) < 0

\* if len(filtered_docs) == 0: return the "cannot answer" result
NoRelevantDocuments(filtered_docs) == Len(filtered_docs) = 0

\* First part of one call, up to the point where agent.query is called.
\* condition is what the search met ("not_ready": no store, "failed": the
\* backend raised, "ok": it returned candidates); invoked tells whether
\* agent.query is called.
QuerySearch(tags, metadata_filter, fails, dist) ==
    LET settings == current_settings
        store == vsm.vector_store
        returned(cond, cands, res) ==
            [ op |-> "query", stage |-> "returned", raised |-> FALSE,
              tags |-> tags, metadata_filter |-> metadata_filter,
              condition |-> cond, candidates |-> cands, filtered |-> << >>,
              invoked |-> FALSE, result |-> res ]
    IN
    IF ~ agent.live
    THEN \* raise ValueError("Agent not initialized")
         [ op |-> "query", stage |-> "returned", raised |-> TRUE,
           tags |-> tags, metadata_filter |-> metadata_filter,
           invoked |-> FALSE ]
    ELSE IF store.kind = NoStore
    THEN returned("not_ready", << >>,
                  CannotAnswer(MsgStoreNotReady, ErrNotInitialized, settings))
    ELSE IF fails \/ store.kind = "memory"
    THEN \* the except branch (MemoryVectorStore has no
         \* similarity_search_with_score: AttributeError)
         returned("failed", << >>,
                  IF get_document_count = 0
                  THEN CannotAnswer(MsgNoDocuments, ErrNoDocuments, settings)
                  ELSE CannotAnswer(MsgSearchError, ErrSearch, settings))
    ELSE
      LET cands == IndexSearch(store.docs, dist,
                               search_k(tags, metadata_filter, settings))
          filtered == FilterCandidates(cands, tags, metadata_filter, settings)
      IN  IF NoRelevantDocuments(filtered)
          THEN returned("ok", cands,
                        CannotAnswer(MsgNoRelevant, ErrNoRelevant, settings))
          ELSE [ op |-> "query", stage |-> "generate", raised |-> FALSE,
                 tags |-> tags, metadata_filter |-> metadata_filter,
                 condition |-> "ok", candidates |-> cands,
                 filtered |-> filtered, invoked |-> TRUE ]

\* one call with its tags and filter among the given ones and the index
\* scoring the chunks with the given scores
QueryWith(TagChoices, FilterChoices, ScoreChoices) ==
    /\ ret = Idle
    /\ \E tags \in TagChoices, metadata_filter \in FilterChoices,
          fails \in BOOLEAN :
        \E dist \in [ 1..Len(vsm.vector_store.docs) -> ScoreChoices ] :
          ret' = QuerySearch(tags, metadata_filter, fails, dist)
    /\ UNCHANGED << uploaded_documents, document_counter, vsm, agent,
                    current_settings, settings_file, model_name,
                    temperature, issued,
                    side_vars >>

\* query_with_similarity up to its call of agent.query, or to its return when
\* it does not get that far
query_with_similarity == QueryWith(QueryTags, QueryFilters, Scores)

\* query(question): the legacy entry, tags = None and metadata_filter = None
query == QueryWith({ {} }, { EmptyDict }, { 1, 12 })

\* the rest of query_with_similarity: agent.query answers and the result is
\* post-processed and completed
query_generate ==
    /\ ret.op = "query" /\ ret.stage = "generate"
    /\ \E reply \in AgentReplies :
        ret' = [ op |-> "query", stage |-> "returned", raised |-> FALSE,
                 condition |-> "ok", filtered |-> ret.filtered,
                 invoked |-> TRUE, raw |-> reply.answer,
                 result |-> Answered(ret.filtered, reply, current_settings) ]
        \* the executor saves the exchange to the memory when invoke returns
        /\ agent' = IF reply.success
                    THEN [ agent EXCEPT !.memory_empty = FALSE ] ELSE agent
    /\ UNCHANGED << uploaded_documents, document_counter, vsm,
                    current_settings, settings_file, model_name,
                    temperature, issued,
                    side_vars >>

\* the call being served ends: its outcome has gone to the caller
Return ==
    /\ ret # Idle
    /\ ~ (ret.op = "query" /\ ret.stage = "generate")
    /\ ret' = Idle
    /\ UNCHANGED << uploaded_documents, document_counter, vsm, agent,
                    current_settings, settings_file, model_name,
                    temperature, issued,
                    side_vars >>

----------------------------------------------------------------------------
(* VectorStoreManager.similarity_search / similarity_search_with_score *)

\* MemoryVectorStore.similarity_search: chunks sharing a word with the query,
\* most shared words first (overlap[i] words for chunk i), at most k
MemorySearch(docs, overlap, k) ==
    LET n == Len(docs)
        hits == { i \in 1..n : overlap[i] > 0 }
        Before(i, j) == overlap[i] > overlap[j] \/ (overlap[i] = overlap[j] /\ i < j)
        Pos(i) == 1 + Cardinality({ j \in hits : Before(j, i) })
        Order == [ p \in 1..Cardinality(hits) |->
                     CHOOSE i \in hits : Pos(i) = p ]
    IN  [ p \in 1..Min2(k, Cardinality(hits)) |->
            [ doc |-> docs[Order[p]], score |-> 10 ] ]

\* what the manager hands back: a list only, [] in each of its three cases
ManagerSearch(m, fails, dist, k) ==
    IF m.vector_store.kind = NoStore
    THEN [ condition |-> "not_ready", returned |-> << >> ]
    ELSE IF fails
    THEN [ condition |-> "failed", returned |-> << >> ]
    ELSE IF m.vector_store.kind = "memory"
    THEN [ condition |-> "ok",
           returned |-> MemorySearch(m.vector_store.docs, dist, k) ]
    ELSE [ condition |-> "ok",
           returned |-> IndexSearch(m.vector_store.docs, dist, k) ]

similarity_search_with_score ==
    /\ ret = Idle
    /\ \E fails \in BOOLEAN, k \in MaxChunksChoices :
      \E dist \in [ 1..Len(vsm.vector_store.docs) -> Scores \cup {0} ] :
        LET r == ManagerSearch(vsm, fails, dist, k)
        IN  /\ ret' = [ op |-> "similarity_search", condition |-> r.condition,
                        returned |-> r.returned ]
            /\ UNCHANGED << uploaded_documents, document_counter, vsm, agent,
                            current_settings, settings_file, model_name,
                            temperature, issued,
                    side_vars >>

----------------------------------------------------------------------------
(* AgenticRAG: conversation memory and source extraction *)

\* A message is [type, content, turn]: content is the list of its lines
\* (content.split('\n')) and turn numbers the exchange that saved it.
\* A line is [marker, text]: marker tells how the line spells "source:"
\* ("lower": source:, "capital": Source:, "none": not at all), text is what
\* follows the marker, stripped.
PlainLine == [ marker |-> "none", text |-> "" ]
HumanMessage(turn) ==
    [ type |-> "human", content |-> << PlainLine >>, turn |-> turn ]
\* output is "answer" or "stopped"
AIMessage(turn, output) ==
    [ type |-> "ai", content |-> << [ marker |-> "none", text |-> output ] >>,
      turn |-> turn ]

\* messages[-n:]
Last(messages, n) ==
    SubSeq(messages, Max({1, Len(messages) - n + 1}), Len(messages))

\* a plausible slip: the whole transcript goes into the prompt
Window_all(messages, k) == messages

\* ConversationBufferWindowMemory(k).load_memory_variables: the chat_history
\* put into the prompt is the last k exchanges, messages[-k * 2:]
Window(messages, k) == Last(messages, k * 2)

\* get_conversation_history: every message of chat_memory.messages
get_conversation_history == chat_memory

\* 'source:' in line.lower()
MentionsSource(line) == line.marker # "none"

\* len(line.split('source:', 1)): the split is case sensitive
SplitParts(line) == IF line.marker = "lower" THEN 2 ELSE 1

\* the loop over the lines of one message, from line i with acc collected;
\* line.split('source:', 1)[1] raises IndexError when the split found nothing
RECURSIVE ScanLines(_, _, _)
ScanLines(lines, i, acc) ==
    IF i > Len(lines) THEN [ raised |-> FALSE, sources |-> acc ]
    ELSE LET line == lines[i]
         IN  IF ~ MentionsSource(line) THEN ScanLines(lines, i + 1, acc)
             ELSE IF SplitParts(line) < 2
                  THEN [ raised |-> TRUE, sources |-> acc ]
                  ELSE LET source == line.text
                           seen == \E n \in 1..Len(acc) : acc[n] = source
                       IN  IF source # "" /\ ~ seen
                           THEN ScanLines(lines, i + 1, Append(acc, source))
                           ELSE ScanLines(lines, i + 1, acc)

\* the loop over the messages; an exception ends it (the except clause logs
\* it) and what was collected so far is returned
RECURSIVE ScanMessages(_, _, _)
ScanMessages(messages, j, acc) ==
    IF j > Len(messages) THEN acc
    ELSE LET r == ScanLines(messages[j].content, 1, acc)
         IN  IF r.raised THEN r.sources
             ELSE ScanMessages(messages, j + 1, r.sources)

\* _extract_sources_from_memory
ExtractSources(messages) == ScanMessages(Last(messages, ScanLast), 1, << >>)

----------------------------------------------------------------------------
(* AgenticRAG.query: the agent executor's reasoning loop and its tools *)

\* the tools of tools.py (get_tools with an llm)
Tools == { "document_search", "web_search", "calculator", "document_summary" }

\* a plausible slip: a _run without its try/except
ToolRun_unguarded(tool, fails) ==
    IF tool \in { "document_search", "document_summary" } \/ fails
    THEN [ raised |-> TRUE, observation |-> NoObservation ]
    ELSE [ raised |-> FALSE,
           observation |-> [ kind |-> "result", tool |-> tool ] ]

\* _run of a tool: every exception raised inside is caught and returned as
\* text. document_search and document_summary call
\* vector_store_manager.search, which VectorStoreManager does not define, so
\* they always end in their except clause; web_search is a placeholder that
\* cannot fail; calculator fails when eval raises.
ToolRun(tool, fails) ==
    IF tool \in { "document_search", "document_summary" }
    THEN [ raised |-> FALSE,
           observation |-> [ kind |-> "error", tool |-> tool ] ]
    ELSE IF tool = "calculator" /\ fails
    THEN [ raised |-> FALSE,
           observation |-> [ kind |-> "error", tool |-> tool ] ]
    ELSE [ raised |-> FALSE,
           observation |-> [ kind |-> "result", tool |-> tool ] ]

\* the executor is not serving a query
AtRest == executor.pc \in { "idle", "returned", "cleared" }

\* AgenticRAG(...): a new session replaces the one the system holds
AgenticRAGInit ==
    /\ AtRest
    /\ chat_memory' = << >>
    /\ executor' = IdleExecutor
    /\ sources' = << >>
    /\ UNCHANGED << registry_vars, settings_vars, handler_vars >>

\* query up to agent_executor.invoke: the chain loads the chat history
invoke ==
    /\ AtRest
    /\ executor.turns < MaxTurns
    /\ executor' = [ executor EXCEPT
                       !.pc = "reasoning", !.iterations = 0, !.steps = 0,
                       !.tool = "", !.observation = NoObservation,
                       !.history = Window(chat_memory, memory_window),
                       !.cause = "", !.result = NoResult ]
    /\ UNCHANGED << chat_memory, sources, registry_vars, settings_vars,
                    handler_vars >>

\* one reasoning step while iterations < max_iterations: the model finishes,
\* asks for a tool, or the call to it raises
plan ==
    /\ executor.pc = "reasoning"
    /\ executor.iterations < max_iterations
    /\ \E choice \in Tools \cup { "finish", "raise" } :
        executor' =
          IF choice = "finish"
          THEN [ executor EXCEPT !.pc = "finished", !.steps = @ + 1 ]
          ELSE IF choice = "raise"
          THEN [ executor EXCEPT !.pc = "raised", !.steps = @ + 1,
                                 !.cause = "model" ]
          ELSE [ executor EXCEPT !.pc = "tool", !.steps = @ + 1,
                                 !.tool = choice ]
    /\ UNCHANGED << chat_memory, sources, registry_vars, settings_vars,
                    handler_vars >>

\* the executor runs the requested tool; what the tool raises would leave
\* invoke as an exception, what it returns is the observation of the step
run_tool ==
    /\ executor.pc = "tool"
    /\ \E fails \in BOOLEAN :
        LET r == ToolRun(executor.tool, fails)
        IN  executor' =
              IF r.raised
              THEN [ executor EXCEPT !.pc = "raised", !.cause = "tool" ]
              ELSE [ executor EXCEPT !.pc = "reasoning",
                                     !.iterations = @ + 1,
                                     !.observation = r.observation ]
    /\ UNCHANGED << chat_memory, sources, registry_vars, settings_vars,
                    handler_vars >>

\* iterations reached max_iterations: the executor (early_stopping_method
\* "force") returns the output "Agent stopped due to iteration limit or time
\* limit." as invoke's result
stop ==
    /\ executor.pc = "reasoning"
    /\ executor.iterations >= max_iterations
    /\ executor' = [ executor EXCEPT !.pc = "stopped" ]
    /\ UNCHANGED << chat_memory, sources, registry_vars, settings_vars,
                    handler_vars >>

\* the dict query returns: invoke returned (the chain has saved the exchange
\* to the memory) or raised
QueryResult(pc) ==
    IF pc = "raised"
    THEN [ success |-> FALSE, answer |-> "Error processing query",
           error |-> "str(e)" ]
    ELSE [ success |-> TRUE,
           answer |-> IF pc = "stopped" THEN "stopped" ELSE "answer",
           error |-> None ]

query_return ==
    /\ executor.pc \in { "finished", "stopped", "raised" }
    /\ LET turn == executor.turns + 1
           saved == chat_memory \o
                    << HumanMessage(turn),
                       AIMessage(turn, IF executor.pc = "stopped"
                                       THEN "stopped" ELSE "answer") >>
       IN  IF executor.pc = "raised"
           THEN /\ executor' =
                      [ executor EXCEPT !.pc = "returned",
                                        !.result = QueryResult("raised") ]
                /\ UNCHANGED << chat_memory, sources >>
           ELSE /\ chat_memory' = saved
                /\ sources' = ExtractSources(saved)
                /\ executor' =
                      [ executor EXCEPT !.pc = "returned", !.turns = turn,
                                        !.result = QueryResult(executor.pc),
                                        !.cause = executor.pc ]
    /\ UNCHANGED << registry_vars, settings_vars, handler_vars >>

\* clear_memory: self.memory.clear()
clear_memory ==
    /\ AtRest
    /\ chat_memory # << >>
    /\ chat_memory' = << >>
    /\ executor' = [ executor EXCEPT !.pc = "cleared" ]
    /\ UNCHANGED << sources, registry_vars, settings_vars, handler_vars >>

AgentNext ==
    \/ AgenticRAGInit
    \/ invoke
    \/ plan
    \/ run_tool
    \/ stop
    \/ query_return
    \/ clear_memory

\* one session, in a system whose embeddings are available
AgentInit == Init /\ vsm.embeddings

AgentSpec == AgentInit /\ [][AgentNext]_vars

----------------------------------------------------------------------------
(* Source extraction over transcripts with "source:" lines *)

\* lines a model's answer may hold
LineChoices ==
    { PlainLine,
      [ marker |-> "lower", text |-> "a.pdf" ],
      [ marker |-> "lower", text |-> "b.pdf" ],
      [ marker |-> "lower", text |-> "" ],
      [ marker |-> "capital", text |-> "a.pdf" ] }

\* contents of 1..MaxLines lines
ContentChoices ==
    UNION { [ 1..n -> LineChoices ] : n \in 1..MaxLines }

\* the chain saves a message whose content the model wrote
save_message ==
    /\ executor.pc \in { "idle", "saving" }
    /\ Len(chat_memory) < MaxMessages
    /\ \E content \in ContentChoices :
        chat_memory' =
          Append(chat_memory,
                 [ type |-> "ai", content |-> content, turn |-> 0 ])
    /\ executor' = [ executor EXCEPT !.pc = "saving" ]
    /\ UNCHANGED << sources, registry_vars, settings_vars, handler_vars >>

\* _extract_sources_from_memory is called on the memory
extract_sources ==
    /\ executor.pc = "saving"
    /\ sources' = ExtractSources(chat_memory)
    /\ executor' = [ executor EXCEPT !.pc = "extracted" ]
    /\ UNCHANGED << chat_memory, registry_vars, settings_vars,
                    handler_vars >>

ExtractNext ==
    \/ save_message
    \/ extract_sources

ExtractSpec == AgentInit /\ [][ExtractNext]_vars

----------------------------------------------------------------------------
Next ==
    \/ update_settings
    \/ add_documents
    \/ delete_document
    \/ clear_all_documents
    \/ InitializeAgent
    \/ query_with_similarity
    \/ query_generate
    \/ Return
    \/ similarity_search_with_score

Spec == Init /\ [][Next]_vars

\* the life cycle of the registry and of the agent session, driven by the
\* operations behind the routes, with unfiltered queries
LifecycleNext ==
    \/ update_settings
    \/ add_documents
    \/ delete_document
    \/ clear_all_documents
    \/ InitializeAgent
    \/ set_model
    \/ reset_system
    \/ query
    \/ query_generate
    \/ Return

LifecycleSpec == Init /\ [][LifecycleNext]_vars

----------------------------------------------------------------------------
(* Prompt composition *)

\* questions a caller may ask
Questions == { "q1", "q2" }

\* _get_length_instruction: the directive of the length class, the one of
\* "short" for a class it does not know
LengthClasses == { "short", "medium", "long", "detailed" }
_get_length_instruction(length) ==
    [ part |-> "length",
      text |-> IF length \in LengthClasses THEN length ELSE "short" ]

\* enhanced_question of query_with_similarity: the parts of the f-string, in
\* the order of the text
enhanced_question(settings, question) ==
    << [ part |-> "marker", text |-> "CRITICAL INSTRUCTION" ],
       [ part |-> "instruction", text |-> settings.system_instruction ],
       [ part |-> "marker", text |-> "STRICT LENGTH REQUIREMENT" ],
       _get_length_instruction(settings.response_length),
       [ part |-> "rules", text |-> "RULES YOU MUST FOLLOW" ],
       [ part |-> "question", text |-> question ] >>

\* PromptManager.create_query_with_prompt with its default template and
\* options: the user query, then the template's prompt (its system prompt
\* and its own style, language and length lines)
query_with_prompt(user_query) ==
    << [ part |-> "question", text |-> user_query ],
       [ part |-> "header", text |-> "SYSTEM INSTRUCTIONS FOR THIS QUERY" ],
       [ part |-> "template", text |-> "default_rag" ] >>

\* query_with_similarity composes the question it gives to agent.query
compose_question ==
    /\ ret = Idle
    /\ \E question \in Questions :
        ret' = [ op |-> "compose", by |-> "query_with_similarity",
                 question |-> question,
                 prompt |-> enhanced_question(current_settings, question) ]
    /\ UNCHANGED << uploaded_documents, document_counter, vsm, agent,
                    current_settings, settings_file, model_name,
                    temperature, issued, side_vars >>

\* PromptManager.create_query_with_prompt(user_query)
create_query_with_prompt ==
    /\ ret = Idle
    /\ \E user_query \in Questions :
        ret' = [ op |-> "compose", by |-> "create_query_with_prompt",
                 question |-> user_query,
                 prompt |-> query_with_prompt(user_query) ]
    /\ UNCHANGED << uploaded_documents, document_counter, vsm, agent,
                    current_settings, settings_file, model_name,
                    temperature, issued, side_vars >>

ComposeNext ==
    \/ update_settings
    \/ compose_question
    \/ create_query_with_prompt
    \/ Return

ComposeSpec == Init /\ [][ComposeNext]_vars

----------------------------------------------------------------------------
(* The filter step of query_with_similarity over settings up to the cap *)

MaxPool == 3            \* chunks of the store the filter step is run on

\* settings whose max_chunks reach the cap of the candidate pool
FilterSettings ==
    { [ DefaultSettings EXCEPT !.max_chunks = m, !.similarity_threshold = t ] :
        m \in { 1, 2, SearchCap \div 2, SearchCap \div 2 + 1, SearchCap },
        t \in { 0, DefaultThreshold } }

\* chunks of a store: the i-th has document id i
PoolChunks(n) ==
    { docs \in [ 1..n -> [ document_id : 1..n, tags : { {}, {"lang"} },
                           metadata : { [EmptyDict EXCEPT !["year"] = "2024"] } ] ] :
        \A i \in 1..n : docs[i].document_id = i }

\* query_with_similarity from search_k to filtered_docs, on a Chroma or FAISS
\* store of n chunks, under the active settings
filter_candidates ==
    /\ ret = Idle
    /\ \E settings \in FilterSettings, n \in 1..MaxPool,
          tags \in { {}, {"lang"} },
          metadata_filter \in { EmptyDict,
                                [EmptyDict EXCEPT !["year"] = "2024"] } :
        \E docs \in PoolChunks(n), dist \in [ 1..n -> Scores ] :
          LET k == search_k(tags, metadata_filter, settings)
              cands == IndexSearch(docs, dist, k)
          IN  ret' = [ op |-> "filter", settings |-> settings,
                       tags |-> tags, metadata_filter |-> metadata_filter,
                       search_k |-> k, stored |-> n, candidates |-> cands,
                       filtered |-> FilterCandidates(cands, tags,
                                                     metadata_filter,
                                                     settings) ]
    /\ UNCHANGED << uploaded_documents, document_counter, vsm, agent,
                    current_settings, settings_file, model_name,
                    temperature, issued, side_vars >>

FilterNext ==
    \/ filter_candidates
    \/ Return

FilterSpec == Init /\ [][FilterNext]_vars

----------------------------------------------------------------------------
(* initialize_agent called with a model and a temperature *)

\* model names a caller may give
ModelNames == { DefaultModel, "gpt-4" }
\* temperatures of the allowed range [0.0, 2.0], in tenths: 0.0, 0.1, 2.0
TemperatureRange == { 0, DefaultTemperature, 20 }

initialize_agent_with ==
    /\ ret = Idle
    /\ \E model_arg \in ModelNames, temperature_arg \in TemperatureRange :
        LET r == initialize_agent(model_arg, temperature_arg)
        IN  /\ agent' = r.agent
            /\ model_name' = r.model_name
            /\ temperature' = r.temperature
            /\ ret' = [ op |-> "initialize_agent_with", returned |-> r.ok,
                        model_arg |-> model_arg,
                        temperature_arg |-> temperature_arg ]
    /\ UNCHANGED << uploaded_documents, document_counter, vsm,
                    current_settings, settings_file, issued, side_vars >>

InitializeNext ==
    \/ add_documents
    \/ delete_document
    \/ initialize_agent_with
    \/ Return

InitializeSpec == Init /\ [][InitializeNext]_vars

----------------------------------------------------------------------------
(* add_documents: the metadata of the ingested chunks *)

\* custom metadata of a caller: the keys it holds and the value of each
\* (document_id 0 is a text that is no issued id)
CustomValues ==
    [ document_id |-> 0, filename |-> "other.txt", tags |-> {"other"},
      year |-> "2023" ]
CustomMetadata ==
    { {}, {"year"}, {"document_id"}, {"filename", "tags"} }

\* filename or f"document_{doc_id}"
FilenameOr(filename) ==
    IF filename = None THEN "document_doc_id" ELSE filename

\* common_metadata after "if tags:" and "if metadata:
\* common_metadata.update(metadata)"; keys is what the custom metadata holds
common_metadata(doc_id, filename, tags, keys) ==
    LET base == [ document_id |-> doc_id,
                  filename |-> FilenameOr(filename),
                  tags |-> tags,
                  year |-> Missing ]
    IN  [ document_id |-> IF "document_id" \in keys
                          THEN CustomValues.document_id
                          ELSE base.document_id,
          filename |-> IF "filename" \in keys
                       THEN CustomValues.filename ELSE base.filename,
          tags |-> IF "tags" \in keys
                   THEN CustomValues.tags ELSE base.tags,
          year |-> IF "year" \in keys
                   THEN CustomValues.year ELSE base.year ]

\* add_documents with a filename, tags and custom metadata of any keys
add_documents_metadata ==
    /\ ret = Idle
    /\ document_counter < MaxIssued
    /\ Len(vsm.documents) < MaxStored
    /\ \E filename \in { "a.txt", None }, tags \in { {}, {"lang"} },
          keys \in CustomMetadata, kind \in StoreKinds :
        LET doc_id == GenerateDocumentId(document_counter)
            chunk == common_metadata(doc_id, filename, tags, keys)
            doc_info == [ id |-> doc_id, filename |-> FilenameOr(filename),
                          tags |-> tags, metadata |-> keys,
                          chunk_count |-> 1 ]
            added == ManagerAdd(vsm, << chunk >>, kind)
            fresh == AgenticRAG(OrModel(None, model_name),
                                OrTemperature(NoTemperature, temperature))
        IN  /\ document_counter' = doc_id
            /\ issued' = issued \cup {doc_id}
            /\ uploaded_documents' =
                   [ d \in DOMAIN uploaded_documents \cup {doc_id} |->
                       IF d = doc_id THEN doc_info
                       ELSE uploaded_documents[d] ]
            /\ vsm' = added.vsm
            /\ agent' = IF ~ agent.live THEN fresh ELSE agent
            /\ ret' = [ op |-> "add_documents", id |-> doc_id,
                        returned |-> added.ok, chunk |-> chunk ]
    /\ UNCHANGED << current_settings, settings_file, model_name,
                    temperature, side_vars >>

MetadataNext ==
    \/ add_documents_metadata
    \/ Return

MetadataSpec == Init /\ [][MetadataNext]_vars

----------------------------------------------------------------------------
(* POST /query: the route and the sources it reports *)

\* the lines of an answer the agent may give: it cites a source or none
AnswerContents ==
    { << PlainLine >>,
      << [ marker |-> "lower", text |-> "a.pdf" ] >>,
      << [ marker |-> "lower", text |-> "b.pdf" ] >> }

\* query_documents: 400 without an agent; otherwise set_model,
\* query_with_similarity (agent.query saves the exchange to the memory when
\* it answers) and the sources taken from the memory of the session
query_documents ==
    /\ ret = Idle
    /\ IF ~ agent.live
       THEN /\ ret' = [ op |-> "query_documents", status |-> 400 ]
            /\ UNCHANGED << agent, model_name, temperature, chat_memory,
                            sources >>
       ELSE \E c \in ModelChoices, fails \in BOOLEAN :
            \E dist \in [ 1..Len(vsm.vector_store.docs) -> { 1, 12 } ] :
              LET r == QuerySearch({}, EmptyDict, fails, dist)
                  turn == Len(chat_memory) \div 2 + 1
                  with_model == [ agent EXCEPT !.model = c[1],
                                               !.temperature = c[2] ]
              IN  /\ model_name' = c[1]
                  /\ temperature' = c[2]
                  /\ IF r.stage = "generate"
                     THEN \/ /\ Len(chat_memory) < 2 * MaxAnswered
                             /\ \E content \in AnswerContents :
                                 /\ chat_memory' =
                                      chat_memory \o
                                      << HumanMessage(turn),
                                         [ type |-> "ai",
                                           content |-> content,
                                           turn |-> turn ] >>
                                 /\ sources' = ExtractSources(chat_memory')
                                 /\ ret' = [ op |-> "query_documents",
                                             status |-> 200,
                                             success |-> TRUE,
                                             chunks_retrieved |->
                                                 Len(r.filtered),
                                             cited |-> content,
                                             sources |-> sources' ]
                             /\ agent' =
                                  [ with_model EXCEPT !.memory_empty = FALSE ]
                          \/ \* agent.query returned its error result
                             /\ sources' = ExtractSources(chat_memory)
                             /\ ret' = [ op |-> "query_documents",
                                         status |-> 200,
                                         success |-> FALSE,
                                         chunks_retrieved |-> Len(r.filtered),
                                         cited |-> << >>,
                                         sources |-> sources' ]
                             /\ agent' = with_model
                             /\ UNCHANGED chat_memory
                     ELSE /\ sources' = ExtractSources(chat_memory)
                          /\ ret' = [ op |-> "query_documents",
                                      status |-> 200,
                                      success |-> FALSE,
                                      chunks_retrieved |-> 0,
                                      cited |-> << >>,
                                      sources |-> sources' ]
                          /\ agent' = with_model
                          /\ UNCHANGED chat_memory
    /\ UNCHANGED << uploaded_documents, document_counter, vsm,
                    current_settings, settings_file, issued, executor,
                    handler_vars >>

RouteNext ==
    \/ add_documents
    \/ query_documents
    \/ Return

RouteSpec == Init /\ [][RouteNext]_vars

----------------------------------------------------------------------------
(* Properties *)

\* a query whose search ran: its candidates and the accepted list are known
Searched ==
    /\ ret.op = "query"
    /\ ~ ret.raised
    /\ ret.condition = "ok"
    /\ "candidates" \in DOMAIN ret

\* a query that returned a result
QueryDone ==
    /\ ret.op = "query"
    /\ ret.stage = "returned"
    /\ ~ ret.raised

\* the threshold and limit the call being served works with
Threshold == current_settings.similarity_threshold
Limit == current_settings.max_chunks

\* candidate c is in the accepted list of the call being served
Kept(c) == \E i \in 1..Len(ret.filtered) : ret.filtered[i] = c

\* C1: whenever the accepted list of a query is empty after thresholding and
\* tag/metadata filtering, the query returns the "cannot answer" result with
\* success = false and chunks_retrieved = 0 and agent.query is not called.
C1_EmptyMeansCannotAnswer ==
    (ret.op = "query" /\ ~ ret.raised /\ ret.condition = "ok"
        /\ ret.filtered = << >>)
    => /\ ret.stage = "returned"
       /\ ~ ret.invoked
       /\ ~ ret.result.success
       /\ ret.result.chunks_retrieved = 0
       /\ ret.result.answer = MsgNoRelevant
       /\ ret.result.error = ErrNoRelevant

\* a tag-filtered query whose candidates were all rejected has returned
C1_Witness ==
    /\ Searched
    /\ ret.tags # {}
    /\ ret.candidates # << >>
    /\ ret.filtered = << >>
    /\ ret.stage = "returned"
    /\ ~ ret.result.success

\* C2: update_settings is all-or-nothing: when the write fails it returns
\* false and get_settings() is the value from before the call; the active
\* settings change only when the write succeeded.
C2_UpdateAllOrNothing ==
    ret.op = "update_settings"
    => /\ ret.returned = ret.saved
       /\ ~ ret.saved => get_settings = ret.before
       /\ get_settings # ret.before => ret.saved
       /\ ret.saved => get_settings = ret.arg

\* an update with new values whose write failed has returned false
C2_Witness ==
    /\ ret.op = "update_settings"
    /\ ~ ret.saved
    /\ ~ ret.returned
    /\ ret.arg # ret.before

\* C3: query never raises: in every state and for every input it returns a
\* result, and on an empty index that result has success = false,
\* chunks_retrieved = 0 and the index-not-ready error.
C3_QueryNeverThrows ==
    (ret.op = "query" /\ ret.stage = "returned")
    => /\ ~ ret.raised
       /\ vsm.vector_store.kind = NoStore
            => /\ ~ ret.result.success
               /\ ret.result.chunks_retrieved = 0
               /\ ret.result.error = ErrNotInitialized

\* C4: with response_length = short, every raw answer longer than the
\* 300-character ceiling is post-processed to at most 300 characters.
C4_ShortAnswerWithinCeiling ==
    (QueryDone /\ ret.invoked
        /\ ret.result.settings_used.response_length = "short"
        /\ Len(ret.raw) > Ceiling)
    => Len(ret.result.answer) <= Ceiling

\* every key of the filter is present in the metadata with an equal value
AllKeysEqual(metadata, metadata_filter) ==
    \A k \in DictKeys(metadata_filter) :
        metadata[k] # Missing /\ metadata[k] = metadata_filter[k]

\* the requested tags and the chunk's tags share a tag
SharesTag(doc_tags, tags) == doc_tags \cap tags # {}

\* C5: metadata filtering has AND semantics in both directions: a candidate
\* holding every filter key with an equal value is accepted by the metadata
\* check, and a candidate for which some filter key is missing or unequal is
\* rejected.
C5_MetadataAnd ==
    (Searched /\ ret.metadata_filter # EmptyDict)
    => /\ \A i \in 1..Len(ret.filtered) :
            AllKeysEqual(ret.filtered[i].doc.metadata, ret.metadata_filter)
       /\ Len(ret.filtered) < Limit
            => \A i \in 1..Len(ret.candidates) :
                 LET c == ret.candidates[i]
                 IN  ( /\ c.score >= Threshold
                       /\ ret.tags # {} => SharesTag(c.doc.tags, ret.tags)
                       /\ AllKeysEqual(c.doc.metadata, ret.metadata_filter) )
                     => Kept(c)

\* C6: tag filtering has OR semantics with no false positives: a candidate
\* passes the tag check iff its tags share a tag with the requested tags, so
\* requested tags disjoint from every candidate's tags give zero results.
C6_TagOr ==
    (Searched /\ ret.tags # {})
    => /\ \A i \in 1..Len(ret.filtered) :
            SharesTag(ret.filtered[i].doc.tags, ret.tags)
       /\ (Len(ret.filtered) < Limit /\ ret.metadata_filter = EmptyDict)
            => \A i \in 1..Len(ret.candidates) :
                 LET c == ret.candidates[i]
                 IN  (c.score >= Threshold /\ SharesTag(c.doc.tags, ret.tags))
                     => Kept(c)
       /\ (\A i \in 1..Len(ret.candidates) :
              ~ SharesTag(ret.candidates[i].doc.tags, ret.tags))
            => /\ ret.stage = "returned"
               /\ ret.result.chunks_retrieved = 0

\* tagged candidates above the threshold, none sharing a requested tag
C6_Witness ==
    /\ Searched
    /\ ret.tags # {}
    /\ \E i \in 1..Len(ret.candidates) :
         /\ ret.candidates[i].doc.tags # {}
         /\ ret.candidates[i].score >= Threshold
    /\ \A i \in 1..Len(ret.candidates) :
         ~ SharesTag(ret.candidates[i].doc.tags, ret.tags)
    /\ ret.stage = "returned"
    /\ ret.result.chunks_retrieved = 0

\* C7: on the filtered and on the no-filter path, a threshold strictly
\* greater than every candidate score gives chunks_retrieved = 0, and no
\* accepted candidate has a score below the threshold.
C7_ThresholdCutoff ==
    /\ Searched
         => /\ (\A i \in 1..Len(ret.candidates) :
                   ret.candidates[i].score < Threshold)
                 => /\ ret.stage = "returned"
                    /\ ret.result.chunks_retrieved = 0
            /\ \A i \in 1..Len(ret.filtered) :
                 ret.filtered[i].score >= Threshold
    /\ (QueryDone /\ ret.invoked)
         => /\ ret.result.chunks_retrieved = Len(ret.filtered)
            /\ \A i \in 1..Len(ret.filtered) :
                 ret.filtered[i].score >= Threshold

\* several candidates, all below the threshold, on the filtered path
C7_Witness ==
    /\ Searched
    /\ ret.tags # {}
    /\ Len(ret.candidates) > 1
    /\ \A i \in 1..Len(ret.candidates) : ret.candidates[i].score < Threshold
    /\ \E i \in 1..Len(ret.candidates) :
         SharesTag(ret.candidates[i].doc.tags, ret.tags)
    /\ ret.stage = "returned"
    /\ ret.result.chunks_retrieved = 0

\* C8: the scores the filter sees are oriented higher = more relevant: of two
\* candidates of one query, if the worse-ranked one passes the threshold
\* check then the better-ranked one passes it too.
C8_ScoresHigherIsBetter ==
    Searched
    => \A i, j \in 1..Len(ret.candidates) :
         (i < j /\ ret.candidates[j].score >= Threshold)
         => ret.candidates[i].score >= Threshold

\* C9: document ids are unique and monotonically assigned: every id issued by
\* add_documents is greater than every id issued before, whatever deletes and
\* clear_all_documents calls came in between.
C9_IdsMonotonic ==
    [][ (ret.op = "idle" /\ ret'.op = "add_documents")
          => \A i \in issued : ret'.id > i ]_vars

\* what a search that legitimately matched nothing hands to its caller
ZeroMatch == << >>

\* C10: search outcomes are classified distinctly: a missing store is
\* reported as index-not-ready, a backend failure as a search error, and
\* neither comes back as a zero-match result (the manager reports through
\* the returned list alone).
C10_OutcomesDistinct ==
    /\ (ret.op = "similarity_search" /\ ret.condition # "ok")
         => ret.returned # ZeroMatch
    /\ (QueryDone /\ ret.condition = "not_ready")
         => ret.result.error = ErrNotInitialized
    /\ (QueryDone /\ ret.condition = "failed")
         => ret.result.error = ErrSearch

\* C22: scored search is available for every backend the store can hold: a
\* query issued while the store is the in-memory fallback still obtains
\* scored candidates and is answered or reported as zero-match, never as a
\* search error.
C22_ScoredSearchOnMemoryStore ==
    (ret.op = "query" /\ ~ ret.raised /\ vsm.vector_store.kind = "memory")
    => /\ ret.condition = "ok"
       /\ ret.stage = "returned" => ret.result.error # ErrSearch

\* 0-based index of the last space among the first Ceiling characters of a
\* text, -1 when there is none
LastSpaceWithinCeiling(text) ==
    LET P == { i \in 1..Len(text) : i <= Ceiling /\ text[i] = " " }
    IN  IF P = {} THEN -1 ELSE Max(P) - 1

\* C24: short-mode cut rule: a raw answer longer than 300 characters is cut
\* at its last whitespace at or before the ceiling when that whitespace is
\* not earlier than position 250, and at ceiling-3 otherwise, an ellipsis
\* being appended in both cases; an answer of at most 300 characters, or any
\* answer under another length class, is returned unchanged.
C24_ShortCutRule ==
    (QueryDone /\ ret.invoked)
    => LET raw == ret.raw
           answer == ret.result.answer
           space == LastSpaceWithinCeiling(raw)
       IN  IF ret.result.settings_used.response_length = "short"
                /\ Len(raw) > Ceiling
           THEN IF space >= LookBack
                THEN answer = SubSeq(raw, 1, space) \o Ellipsis
                ELSE answer = SubSeq(raw, 1, Ceiling - 3) \o Ellipsis
           ELSE answer = raw

\* C28: every result of query_with_similarity has chunks_retrieved <=
\* max_chunks of the active settings, success = true only with
\* chunks_retrieved >= 1, and similarity_scores null when
\* show_similarity_scores is off and otherwise a list of exactly
\* chunks_retrieved entries.
C28_ResultShape ==
    QueryDone
    => LET result == ret.result
       IN  /\ result.chunks_retrieved <= current_settings.max_chunks
           /\ result.success => result.chunks_retrieved >= 1
           /\ ~ current_settings.show_similarity_scores
                => result.similarity_scores.null
           /\ current_settings.show_similarity_scores
                => /\ ~ result.similarity_scores.null
                   /\ Len(result.similarity_scores.items) =
                        result.chunks_retrieved

\* C28 as amended: every result of query_with_similarity has
\* chunks_retrieved <= max_chunks of the active settings and success = true
\* only with chunks_retrieved >= 1; similarity_scores is null when
\* show_similarity_scores is off and in every result that did not reach the
\* agent (chunks_retrieved = 0), and otherwise a list of exactly
\* chunks_retrieved entries.
C28_ResultShapeAnswered ==
    QueryDone
    => LET result == ret.result
       IN  /\ result.chunks_retrieved <= current_settings.max_chunks
           /\ result.settings_used = settings_used(current_settings)
           /\ result.success => result.chunks_retrieved >= 1
           /\ ret.invoked <=> result.chunks_retrieved >= 1
           /\ (~ current_settings.show_similarity_scores \/ ~ ret.invoked)
                => result.similarity_scores = NullScores
           /\ (current_settings.show_similarity_scores /\ ret.invoked)
                => /\ ~ result.similarity_scores.null
                   /\ Len(result.similarity_scores.items) =
                        result.chunks_retrieved

\* an answered query with scores shown that retrieved max_chunks = 2 chunks
C28_Witness ==
    /\ QueryDone
    /\ ret.invoked
    /\ ret.result.success
    /\ current_settings.show_similarity_scores
    /\ current_settings.max_chunks = 2
    /\ ret.result.chunks_retrieved = 2
    /\ Len(ret.result.similarity_scores.items) = 2

\* C26: add_documents records a document in the registry, and
\* auto-initializes the agent, only when its chunks were added to the vector
\* index: if the index add fails, the registry, the document count and the
\* agent are as before the call.
C26_RegistryFollowsIndex ==
    (ret.op = "add_documents" /\ ~ ret.returned)
    => /\ ret.id \notin DOMAIN uploaded_documents
       /\ \A i \in 1..Len(vsm.documents) :
            vsm.documents[i].document_id # ret.id
       /\ get_document_count = 0 => ~ agent.live

----------------------------------------------------------------------------
(* Properties of the life cycle, checked under LifecycleSpec *)

C18_AgentOnlyWithDocuments ==
    /\ agent.live => get_document_count >= 1
    /\ (ret.op = "initialize_agent" /\ get_document_count = 0)
         => /\ ~ ret.returned
            /\ ~ agent.live

\* the last document of a live session has been deleted
C18_Witness ==
    /\ ret.op = "delete_document"
    /\ ret.returned
    /\ ret.agent_before.live
    /\ get_document_count = 0
    /\ ~ agent.live

\* C19: delete_document(id) for an existing id removes exactly that id from
\* the registry and leaves every other record, the id counter, the settings
\* and the vector index unchanged (the chunks of the deleted document stay
\* retrievable); for an unknown id it returns false and changes nothing.
C19_DeleteFrame ==
    [][ (ret.op = "idle" /\ ret'.op = "delete_document")
          => IF ret'.id \in DOMAIN uploaded_documents
             THEN /\ ret'.returned
                  /\ DOMAIN uploaded_documents' =
                         DOMAIN uploaded_documents \ {ret'.id}
                  /\ \A d \in DOMAIN uploaded_documents' :
                         uploaded_documents'[d] = uploaded_documents[d]
                  /\ UNCHANGED << document_counter, vsm, current_settings,
                                  settings_file >>
             ELSE /\ ~ ret'.returned
                  /\ UNCHANGED << uploaded_documents, document_counter, vsm,
                                  agent, current_settings, settings_file,
                                  model_name, temperature >> ]_vars

\* one of two documents was deleted and its chunk is still in the index
C19_Witness ==
    /\ ret.op = "delete_document"
    /\ ret.returned
    /\ ret.id \notin DOMAIN uploaded_documents
    /\ get_document_count >= 1
    /\ \E i \in 1..Len(vsm.vector_store.docs) :
         vsm.vector_store.docs[i].document_id = ret.id

\* C20: after clear_all_documents the registry is empty, document_count is 0
\* and no agent is live; every query is rejected until a document has been
\* uploaded, and the upload makes the agent ready without a call of
\* initialize_agent.
C20_ClearThenUpload ==
    [][ /\ ret'.op = "clear_all_documents"
           => /\ ret'.returned
              /\ uploaded_documents' = << >>
              /\ ~ agent'.live
        /\ (ret'.op = "query" /\ ~ agent.live) => ret'.raised
        /\ (~ agent.live /\ agent'.live) => ret'.op = "add_documents"
        /\ (ret.op = "idle" /\ ret'.op = "add_documents") => agent'.live
      ]_vars

\* a live session with documents has been cleared away
C20_Witness ==
    /\ ret.op = "clear_all_documents"
    /\ ret.returned
    /\ ret.agent_before.live
    /\ issued # {}
    /\ get_document_count = 0
    /\ ~ agent.live

----------------------------------------------------------------------------
(* POST /settings/instructions: requests on the server's event loop *)

\* whether the handler body, at position pc, hands control back to the event
\* loop: set_instruction_settings and what it calls hold no await
Yields_anywhere(pc) == TRUE
Yields(pc) == FALSE

\* a plausible slip: handlers are scheduled as if they were threads
MayRun_always(i) == TRUE

\* the event loop may run a step of request i
MayRun(i) ==
    \/ running = i
    \/ running = 0
    \/ (running # i /\ Yields(requests[running].pc))

\* a request arrives and waits for the event loop
post_settings ==
    /\ Len(requests) < MaxRequests
    /\ \E settings \in SettingsInputs :
        requests' = Append(requests,
                           [ settings |-> settings, pc |-> "queued",
                             returned |-> FALSE, finished |-> 0 ])
    /\ UNCHANGED << running, file_parts, registry_vars, settings_vars,
                    session_vars >>

\* how many requests have been answered
Finished == Cardinality({ i \in 1..Len(requests) : requests[i].pc = "done" })

\* _save_settings: open(self.settings_file, 'w') truncates the file, or
\* raises and update_settings returns False
open_file ==
    \E i \in 1..Len(requests) :
      /\ requests[i].pc = "queued"
      /\ MayRun(i)
      /\ \/ /\ requests' = [ requests EXCEPT ![i].pc = "opened" ]
            /\ running' = i
            /\ file_parts' = [ head |-> 0, tail |-> 0 ]
            /\ settings_file' =
                  [ state |-> "damaged", content |-> DefaultSettings ]
         \/ /\ requests' = [ requests EXCEPT ![i].pc = "done",
                                              ![i].finished = Finished + 1 ]
            /\ running' = IF running = i THEN 0 ELSE running
            /\ UNCHANGED << file_parts, settings_file >>
      /\ UNCHANGED << current_settings, registry_vars, session_vars >>

\* json.dump writes the first part of the text, or raises and
\* update_settings returns False
dump_head ==
    \E i \in 1..Len(requests) :
      /\ requests[i].pc = "opened"
      /\ MayRun(i)
      /\ \/ /\ requests' = [ requests EXCEPT ![i].pc = "head" ]
            /\ running' = i
            /\ file_parts' = [ file_parts EXCEPT !.head = i ]
         \/ /\ requests' = [ requests EXCEPT ![i].pc = "done",
                                              ![i].finished = Finished + 1 ]
            /\ running' = IF running = i THEN 0 ELSE running
            /\ UNCHANGED file_parts
      /\ UNCHANGED << settings_vars, registry_vars, session_vars >>

\* json.dump writes the rest and the file is closed
dump_tail ==
    \E i \in 1..Len(requests) :
      /\ requests[i].pc = "head"
      /\ MayRun(i)
      /\ requests' = [ requests EXCEPT ![i].pc = "dumped" ]
      /\ running' = i
      /\ file_parts' = [ file_parts EXCEPT !.tail = i ]
      /\ settings_file' =
            IF file_parts.head = i
            THEN [ state |-> "written", content |-> requests[i].settings ]
            ELSE [ state |-> "damaged", content |-> DefaultSettings ]
      /\ UNCHANGED << current_settings, registry_vars, session_vars >>

\* update_settings after a successful save, and the handler's response
assign_settings ==
    \E i \in 1..Len(requests) :
      /\ requests[i].pc = "dumped"
      /\ MayRun(i)
      /\ LET r == initialize_agent(model_name, temperature)
         IN  /\ current_settings' =
                   ActiveAfterUpdate(TRUE, requests[i].settings,
                                     current_settings)
             /\ agent' = AgentAfterUpdate(TRUE, agent, r.agent)
             /\ model_name' = IF agent.live THEN r.model_name ELSE model_name
             /\ temperature' =
                   IF agent.live THEN r.temperature ELSE temperature
      /\ requests' = [ requests EXCEPT ![i].pc = "done",
                                       ![i].returned = TRUE,
                                       ![i].finished = Finished + 1 ]
      /\ running' = IF running = i THEN 0 ELSE running
      /\ UNCHANGED << settings_file, file_parts, uploaded_documents,
                      document_counter, vsm, issued, ret, session_vars >>

HandlerNext ==
    \/ post_settings
    \/ open_file
    \/ dump_head
    \/ dump_tail
    \/ assign_settings

HandlerSpec == AgentInit /\ [][HandlerNext]_vars

----------------------------------------------------------------------------
(* POST /upload: add_documents calls on the server's event loop *)

\* an upload request arrives and waits for the event loop
post_upload ==
    /\ Len(requests) < MaxRequests
    /\ \E up \in Uploads :
        requests' = Append(requests,
                           [ upload |-> up, pc |-> "queued", doc_id |-> 0,
                             returned |-> FALSE, finished |-> 0 ])
    /\ UNCHANGED << running, file_parts, registry_vars, settings_vars,
                    session_vars >>

\* _generate_document_id: self.document_counter += 1
count_document ==
    \E i \in 1..Len(requests) :
      /\ requests[i].pc = "queued"
      /\ MayRun(i)
      /\ document_counter < MaxIssued
      /\ document_counter' = document_counter + 1
      /\ requests' = [ requests EXCEPT ![i].pc = "counted" ]
      /\ running' = i
      /\ UNCHANGED << uploaded_documents, vsm, agent, model_name,
                      temperature, issued, ret, file_parts, settings_vars,
                      session_vars >>

\* _generate_document_id: return f"doc_{self.document_counter:08d}"
name_document ==
    \E i \in 1..Len(requests) :
      /\ requests[i].pc = "counted"
      /\ MayRun(i)
      /\ requests' = [ requests EXCEPT ![i].pc = "named",
                                       ![i].doc_id = document_counter ]
      /\ issued' = issued \cup { document_counter }
      /\ running' = i
      /\ UNCHANGED << uploaded_documents, document_counter, vsm, agent,
                      model_name, temperature, ret, file_parts,
                      settings_vars, session_vars >>

\* add_documents: self.uploaded_documents[doc_id] = doc_info
register_document ==
    \E i \in 1..Len(requests) :
      /\ requests[i].pc = "named"
      /\ MayRun(i)
      /\ LET doc_id == requests[i].doc_id
             up == requests[i].upload
         IN  uploaded_documents' =
                 [ d \in DOMAIN uploaded_documents \cup {doc_id} |->
                     IF d = doc_id
                     THEN [ tags |-> up.tags, metadata |-> up.metadata,
                            chunk_count |-> 1 ]
                     ELSE uploaded_documents[d] ]
      /\ requests' = [ requests EXCEPT ![i].pc = "registered" ]
      /\ running' = i
      /\ UNCHANGED << document_counter, vsm, agent, model_name, temperature,
                      issued, ret, file_parts, settings_vars, session_vars >>

\* add_documents: the vector store add, the auto-initialization of the agent
\* and the return of the result
index_document ==
    \E i \in 1..Len(requests) :
      /\ requests[i].pc = "registered"
      /\ MayRun(i)
      /\ Len(vsm.documents) < MaxStored
      /\ \E kind \in StoreKinds :
          LET up == requests[i].upload
              chunk == [ document_id |-> requests[i].doc_id,
                         tags |-> up.tags, metadata |-> up.metadata ]
              added == ManagerAdd(vsm, << chunk >>, kind)
              fresh == AgenticRAG(OrModel(None, model_name),
                                  OrTemperature(NoTemperature, temperature))
          IN  /\ vsm' = added.vsm
              /\ agent' = IF ~ agent.live THEN fresh ELSE agent
              /\ requests' = [ requests EXCEPT
                                 ![i].pc = "done",
                                 ![i].returned = added.ok,
                                 ![i].finished = Finished + 1 ]
      /\ running' = IF running = i THEN 0 ELSE running
      /\ UNCHANGED << uploaded_documents, document_counter, model_name,
                      temperature, issued, ret, file_parts, settings_vars,
                      session_vars >>

IngestNext ==
    \/ post_upload
    \/ count_document
    \/ name_document
    \/ register_document
    \/ index_document

IngestSpec == Init /\ [][IngestNext]_vars

----------------------------------------------------------------------------
(* Properties of the agent session, checked under AgentSpec *)

\* C11: the reasoning loop never takes more than max_iterations reasoning
\* steps for one query, and a query stopped by the ceiling is returned as a
\* failure classified MaxIterationsExceeded (success = false), not as a
\* success and not as a generic error.
C11_CeilingIsClassified ==
    /\ executor.steps <= max_iterations
    /\ (executor.pc = "returned" /\ executor.cause = "stopped")
         => /\ ~ executor.result.success
            /\ executor.result.error = "MaxIterationsExceeded"

\* C12: a failure inside a tool invocation never leaves the tool: the tool
\* returns an error text as the observation of the step and the loop goes
\* on, so no query ends as a failure because a tool failed.
C12_ToolFailureIsObservation ==
    /\ executor.cause # "tool"
    /\ executor.pc = "raised" => executor.cause = "model"
    /\ (executor.pc = "returned" /\ ~ executor.result.success)
         => executor.cause = "model"
    /\ executor.observation.kind = "error"
         => executor.pc \in { "reasoning", "tool", "finished", "stopped",
                              "raised", "returned", "cleared" }

\* a query answered after its calculator call had failed
C12_Witness ==
    /\ executor.pc = "returned"
    /\ executor.result.success
    /\ executor.cause = "finished"
    /\ executor.observation = [ kind |-> "error", tool |-> "calculator" ]

\* the number of exchanges in a list of messages
TurnsIn(messages) == Cardinality({ messages[i].turn : i \in 1..Len(messages) })

InFlight ==
    executor.pc \in { "reasoning", "tool", "finished", "stopped", "raised" }

----------------------------------------------------------------------------
(* Properties of source extraction, checked under ExtractSpec *)

\* the texts of a list of lines that follow a marker, whatever its case
RECURSIVE Marked(_, _)
Marked(lines, i) ==
    IF i > Len(lines) THEN << >>
    ELSE IF lines[i].marker # "none" /\ lines[i].text # ""
         THEN << lines[i].text >> \o Marked(lines, i + 1)
         ELSE Marked(lines, i + 1)

\* all lines of a list of messages, in order
RECURSIVE AllLines(_, _)
AllLines(messages, j) ==
    IF j > Len(messages) THEN << >>
    ELSE messages[j].content \o AllLines(messages, j + 1)

\* a list without its repetitions, first occurrences kept in order
RECURSIVE FirstSeen(_, _, _)
FirstSeen(xs, i, acc) ==
    IF i > Len(xs) THEN acc
    ELSE IF \E n \in 1..Len(acc) : acc[n] = xs[i]
         THEN FirstSeen(xs, i + 1, acc)
         ELSE FirstSeen(xs, i + 1, Append(acc, xs[i]))

\* C14: source extraction returns every X that follows a "Source: X" marker
\* in the scanned transcript, each once and in first-seen order, whatever the
\* letter case of the marker and however many marker lines there are.
C14_ExtractsEverySource ==
    executor.pc = "extracted"
    => sources = FirstSeen(Marked(AllLines(Last(chat_memory, ScanLast), 1), 1),
                           1, << >>)

----------------------------------------------------------------------------
(* Properties of concurrent settings updates, checked under HandlerSpec *)

\* the persisted file holds parts written by two different calls
MixedFile ==
    /\ file_parts.head # 0
    /\ file_parts.tail # 0
    /\ file_parts.head # file_parts.tail

\* every received request has been answered
AllReturned ==
    \A i \in 1..Len(requests) : requests[i].pc = "done"

----------------------------------------------------------------------------
(* Properties of prompt composition, checked under ComposeSpec *)

\* the parts of prompt p appear at increasing positions, the last at the end
InOrder(p, first, second, third, last) ==
    \E i, j, k \in 1..Len(p) :
        /\ i < j /\ j < k /\ k < Len(p)
        /\ p[i] = first
        /\ p[j] = second
        /\ p[k] = third
        /\ p[Len(p)] = last

\* C21: every prompt composed for a query contains, in this order, the
\* mandatory-priority marker, the active system_instruction text, the length
\* directive derived from response_length, and the user's question last.
C21_InstructionsBeforeQuestion ==
    ret.op = "compose"
    => InOrder(ret.prompt,
               [ part |-> "marker", text |-> "CRITICAL INSTRUCTION" ],
               [ part |-> "instruction",
                 text |-> current_settings.system_instruction ],
               _get_length_instruction(current_settings.response_length),
               [ part |-> "question", text |-> ret.question ])

----------------------------------------------------------------------------
(* Properties of the filter step, checked under FilterSpec *)

\* the candidates of the call being served that pass its threshold, tag and
\* metadata checks, in the order the index returned them
AcceptedCandidates ==
    SelectSeq(ret.candidates,
              LAMBDA c :
                /\ c.score >= ret.settings.similarity_threshold
                /\ ret.tags # {} => SharesTag(c.doc.tags, ret.tags)
                /\ ret.metadata_filter # EmptyDict
                     => MetadataCheck(c.doc.metadata, ret.metadata_filter))

\* C23: the filter result is exactly the first limit (= max_chunks) accepted
\* candidates in the index's ranked order, relative order preserved; and the
\* pool requested from the index is min(2 x limit, 20) when a tag or metadata
\* filter is given and limit otherwise.
C23_FirstLimitAccepted ==
    ret.op = "filter"
    => LET limit == ret.settings.max_chunks
           filtering == ret.tags # {} \/ ret.metadata_filter # EmptyDict
       IN  /\ ret.filtered =
                SubSeq(AcceptedCandidates, 1,
                       IF Len(AcceptedCandidates) < limit
                       THEN Len(AcceptedCandidates) ELSE limit)
           /\ Len(ret.filtered) <= limit
           /\ ret.search_k =
                IF ~ filtering THEN limit
                ELSE IF 2 * limit > SearchCap THEN SearchCap ELSE 2 * limit
           /\ ret.search_k <= SearchCap
           /\ Len(ret.candidates) =
                IF ret.stored < ret.search_k THEN ret.stored ELSE ret.search_k

\* a tag-filtered call with limit 1: the pool of two holds a rejected
\* candidate first and then two tied accepted ones, of which the first is kept
C23_Witness ==
    /\ ret.op = "filter"
    /\ ret.tags # {}
    /\ ret.settings.max_chunks = 1
    /\ ret.search_k = 2
    /\ ret.stored = 3
    /\ Len(ret.candidates) = 2
    /\ ret.candidates[1].score = ret.candidates[2].score
    /\ Len(AcceptedCandidates) = 2
    /\ ret.filtered = << ret.candidates[1] >>

----------------------------------------------------------------------------
(* Properties of initialize_agent, checked under InitializeSpec *)

\* C30: after initialize_agent(model, temperature) has returned true, the
\* system's active model and temperature, and those of the live agent, are
\* the given arguments, for every temperature of [0.0, 2.0], 0.0 included.
C30_AgentTakesArguments ==
    (ret.op = "initialize_agent_with" /\ ret.returned)
    => /\ model_name = ret.model_arg
       /\ temperature = ret.temperature_arg
       /\ agent.live
       /\ agent.model = ret.model_arg
       /\ agent.temperature = ret.temperature_arg

----------------------------------------------------------------------------
(* Properties of the chunk metadata, checked under MetadataSpec *)

\* C29: every chunk ingested by add_documents carries in its metadata the
\* document_id, filename and tags of the DocumentRecord created by that same
\* call, whatever keys the caller-supplied custom metadata contains.
C29_ChunkCarriesRecord ==
    ret.op = "add_documents"
    => LET record == uploaded_documents[ret.id]
       IN  /\ ret.chunk.document_id = record.id
           /\ ret.chunk.filename = record.filename
           /\ ret.chunk.tags = record.tags

----------------------------------------------------------------------------
(* Properties of the reported sources, checked under RouteSpec *)

\* C27: the sources reported with a query result come only from that query:
\* a query with chunks_retrieved = 0 reports an empty source list, and a
\* source cited only in an earlier query of the session never appears in a
\* later query's sources.
C27_SourcesOfThisQuery ==
    (ret.op = "query_documents" /\ ret.status = 200)
    => /\ ret.chunks_retrieved = 0 => ret.sources = << >>
       /\ \A n \in 1..Len(ret.sources) :
            \E i \in 1..Len(ret.cited) :
                /\ ret.cited[i].marker # "none"
                /\ ret.cited[i].text = ret.sources[n]

----------------------------------------------------------------------------
(* Properties of concurrent ingestion, checked under IngestSpec *)

\* the index holds a chunk of document doc_id
Indexed(doc_id) ==
    \E n \in 1..Len(vsm.vector_store.docs) :
        vsm.vector_store.docs[n].document_id = doc_id

====
